---- MODULE Spec2Model ----
(***************************************************************************)
(* Model of the merge-and-feature-engineering pipeline of                  *)
(* src/src/data/preprocessor.py (class Preprocessor), of the loaders of    *)
(* src/src/data/loaders.py, of the functions that run them for a year and  *)
(* of the scripts that rework a processed file (scripts/update_features.py *)
(* and scripts/generate_sample_years.py).                                  *)
(*                                                                         *)
(* Tables (pandas DataFrames) are sequences of records, one record per     *)
(* row, in row order.  Numeric cells are extended rationals [n, d]:        *)
(* d > 0 is the exact value n/d, d = 0 with n = 0 is NaN and d = 0 with    *)
(* n = +-1 is +-infinity.  Timestamps are hours since 1970-01-01 00:00,    *)
(* dates are days since 1970-01-01, NaT is -1.                             *)
(***************************************************************************)
EXTENDS Integers, Sequences, FiniteSets, TLC

VARIABLES pc, save, ons_df, inmet_df, ons_clean, inmet_agg, merged, final_df, saved,
          generated, caller, feed_ons, feed_inmet, error

vars == <<pc, save, ons_df, inmet_df, ons_clean, inmet_agg, merged, final_df, saved,
          generated, caller, feed_ons, feed_inmet, error>>

----------------------------------------------------------------------------
(* Bounds of the explored inputs *)

MaxOnsFree == 2

MaxInmetFree == 2

MaxBulkFree == 2

MaxBulk == 31

MaxStations == 2

----------------------------------------------------------------------------
(* Extended rational arithmetic standing for the float64 cells *)

Abs(i) == IF i < 0 THEN -i ELSE i

Sign(i) == IF i < 0 THEN -1 ELSE IF i > 0 THEN 1 ELSE 0

RECURSIVE GCD(_, _)
GCD(a, b) == IF b = 0 THEN a ELSE GCD(b, a % b)

NaN == [n |-> 0, d |-> 0]

IsNaN(x) == x.d = 0 /\ x.n = 0

Norm(n, d) ==
    IF d = 0 THEN [n |-> Sign(n), d |-> 0]
    ELSE LET g == GCD(Abs(n), Abs(d))
         IN  [n |-> Sign(d) * Sign(n) * (Abs(n) \div g), d |-> Abs(d) \div g]

I(v) == [n |-> v, d |-> 1]

RNeg(a) == [n |-> -a.n, d |-> a.d]

RAdd(a, b) ==
    IF IsNaN(a) \/ IsNaN(b) THEN NaN
    ELSE IF a.d = 0 /\ b.d = 0 THEN (IF a.n = b.n THEN a ELSE NaN)
    ELSE IF a.d = 0 THEN a
    ELSE IF b.d = 0 THEN b
    ELSE LET g == GCD(a.d, b.d)
         IN  Norm(a.n * (b.d \div g) + b.n * (a.d \div g), (a.d \div g) * b.d)

RSub(a, b) == RAdd(a, RNeg(b))

RMul(a, b) ==
    IF IsNaN(a) \/ IsNaN(b) THEN NaN
    ELSE IF a.d = 0 \/ b.d = 0 THEN Norm(Sign(a.n) * Sign(b.n), 0)
    ELSE LET g1 == GCD(Abs(a.n), b.d)
             g2 == GCD(Abs(b.n), a.d)
         IN  Norm((a.n \div g1) * (b.n \div g2), (a.d \div g2) * (b.d \div g1))

RInv(a) == IF IsNaN(a) THEN NaN ELSE IF a.d = 0 THEN I(0) ELSE Norm(a.d, a.n)

\* x / 0 is +-inf for x # 0 and NaN for x = 0, as in IEEE arithmetic
RDiv(a, b) ==
    IF IsNaN(a) \/ IsNaN(b) THEN NaN
    ELSE IF b.n = 0 /\ b.d # 0 THEN Norm(Sign(a.n), 0)
    ELSE RMul(a, RInv(b))

\* comparisons are FALSE as soon as one side is NaN
RLt(a, b) ==
    /\ ~IsNaN(a) /\ ~IsNaN(b)
    /\ IF a.d = 0 /\ b.d = 0 THEN a.n < b.n
       ELSE IF a.d = 0 THEN a.n < 0
       ELSE IF b.d = 0 THEN b.n > 0
       ELSE a.n * b.d < b.n * a.d

RLe(a, b) == ~IsNaN(a) /\ ~IsNaN(b) /\ (a = b \/ RLt(a, b))

RGt(a, b) == RLt(b, a)

----------------------------------------------------------------------------
(* Generic helpers over sequences *)

Range(s) == {s[i] : i \in 1..Len(s)}

RECURSIVE SeqsUpTo(_, _)
SeqsUpTo(S, k) ==
    IF k = 0 THEN {<<>>}
    ELSE LET prev == SeqsUpTo(S, k - 1)
         IN  prev \cup {Append(s, x) : s \in {t \in prev : Len(t) = k - 1}, x \in S}

\* a sequence given as a function, evaluated once into a tuple
Tuple(s) == s \o <<>>

\* F(lo) \o ... \o F(hi), split in halves to keep the evaluation shallow
RECURSIVE ConcatRange(_, _, _)
ConcatRange(F(_), lo, hi) ==
    IF lo > hi THEN <<>>
    ELSE IF lo = hi THEN F(lo)
    ELSE LET mid == (lo + hi) \div 2
         IN  ConcatRange(F, lo, mid) \o ConcatRange(F, mid + 1, hi)

\* the indices 1..n that satisfy Keep, as an increasing sequence
SelectIdx(n, Keep(_)) == SelectSeq([i \in 1..n |-> i], Keep)

\* the values of the non-NaN cells of a numeric column
NotNaN(xs) == SelectSeq(xs, LAMBDA x : ~IsNaN(x))

\* sum of xs[lo..hi], split in halves to keep the evaluation shallow
RECURSIVE RSumRange(_, _, _)
RSumRange(xs, lo, hi) ==
    IF lo > hi THEN I(0)
    ELSE IF lo = hi THEN xs[lo]
    ELSE LET mid == (lo + hi) \div 2
         IN  RAdd(RSumRange(xs, lo, mid), RSumRange(xs, mid + 1, hi))

RSum(xs) == RSumRange(xs, 1, Len(xs))

Mean(xs) == LET v == NotNaN(xs) IN RDiv(RSum(v), I(Len(v)))

\* the population variance, divisor n (ddof = 0)
VarPopulation(xs) ==
    LET v == NotNaN(xs)
        m == Mean(v)
        sq == Tuple([i \in 1..Len(v) |-> RMul(RSub(v[i], m), RSub(v[i], m))])
    IN  RDiv(RSum(sq), I(Len(v)))

\* pandas Series.std(): sample variance, divisor n - 1 (ddof = 1), NaN skipped
Var(xs) ==
    LET v == NotNaN(xs)
        m == Mean(v)
        sq == Tuple([i \in 1..Len(v) |-> RMul(RSub(v[i], m), RSub(v[i], m))])
    IN  RDiv(RSum(sq), I(Len(v) - 1))

\* A Z-score (x - mean) / std is kept as its sign and its square, std being
\* the square root of var; sq = NaN stands for a NaN score.
ZScore(x, mean, var) ==
    LET dev == RSub(x, mean)
        sq == RDiv(RMul(dev, dev), var)
    IN  [sgn |-> IF IsNaN(sq) THEN 0 ELSE Sign(dev.n), sq |-> sq]

\* np.abs(z) <= t and np.abs(z) > t for a threshold t = tn / td > 0
AbsLe(z, tn, td) == RLe(z.sq, Norm(tn * tn, td * td))

AbsGt(z, tn, td) == RGt(z.sq, Norm(tn * tn, td * td))

----------------------------------------------------------------------------
(* Calendar: pandas datetime64 values are offsets from the epoch *)

HoursPerDay == 24

NaT == -1

\* Series.dt.date: the calendar date of a timestamp, time of day discarded
DtDate(ts) == IF ts = NaT THEN NaT ELSE ts \div HoursPerDay

DaysFromCivil(y, m, d) ==
    LET yy == IF m <= 2 THEN y - 1 ELSE y
        era == yy \div 400
        yoe == yy - era * 400
        mp == IF m > 2 THEN m - 3 ELSE m + 9
        doy == (153 * mp + 2) \div 5 + d - 1
        doe == yoe * 365 + yoe \div 4 - yoe \div 100 + doy
    IN  era * 146097 + doe - 719468

Day0 == DaysFromCivil(2023, 1, 10)

At(day, hour) == day * HoursPerDay + hour

----------------------------------------------------------------------------
(* Regions *)

NoRegion == "<NA>"

\* sort order of the region names (lexicographic order of the strings)
RegionOrder == <<"Nordeste", "Norte", "Sudeste/Centro-Oeste", "Sul", "Unknown", NoRegion>>

RegionRank(r) == CHOOSE i \in 1..Len(RegionOrder) : RegionOrder[i] = r

----------------------------------------------------------------------------
(* Rows *)

OnsRow(ts, r, v) ==
    [din_instante |-> ts, nom_subsistema |-> r, val_cargaenergiamwmed |-> v]

InmetRow(r, data, t, rad, p) ==
    [region |-> r, Data |-> data, temp |-> t, radiation |-> rad, precip |-> p]

----------------------------------------------------------------------------
(* Preprocessor.clean_ons_data *)

\* dropna with nom_subsistema left out of the subset
DropNaWithoutRegion(df) ==
    SelectSeq(df, LAMBDA row :
        /\ row.din_instante # NaT
        /\ ~IsNaN(row.val_cargaenergiamwmed))

\* dropna(subset=[din_instante, val_cargaenergiamwmed, nom_subsistema])
DropNa(df) ==
    SelectSeq(df, LAMBDA row :
        /\ row.din_instante # NaT
        /\ ~IsNaN(row.val_cargaenergiamwmed)
        /\ row.nom_subsistema # NoRegion)

SameKey(a, b) ==
    /\ a.din_instante = b.din_instante
    /\ a.nom_subsistema = b.nom_subsistema

\* drop_duplicates with keep='last'
DropDuplicatesKeepLast(df) ==
    LET idx == SelectIdx(Len(df),
                   LAMBDA i : \A j \in (i + 1)..Len(df) : ~SameKey(df[j], df[i]))
    IN  Tuple([k \in 1..Len(idx) |-> df[idx[k]]])

\* drop_duplicates(subset=[din_instante, nom_subsistema]), keep='first'
DropDuplicates(df) ==
    LET idx == SelectIdx(Len(df), LAMBDA i : \A j \in 1..(i - 1) : ~SameKey(df[j], df[i]))
    IN  Tuple([k \in 1..Len(idx) |-> df[idx[k]]])

LoadColumn(df) == Tuple([i \in 1..Len(df) |-> df[i].val_cargaenergiamwmed])

\* z_scores: np.abs((load - load.mean()) / load.std()) over the whole table
CleanZScores(df) ==
    LET col == LoadColumn(df)
        mean == Mean(col)
        var == Var(col)
    IN  Tuple([i \in 1..Len(df) |-> ZScore(col[i], mean, var)])

\* the filter with the threshold of the anomaly flag
OutlierFilterAnomalyThreshold(df) ==
    LET z == CleanZScores(df)
        idx == SelectIdx(Len(df), LAMBDA i : AbsLe(z[i], 5, 2))
    IN  Tuple([k \in 1..Len(idx) |-> df[idx[k]]])

\* clean_df[z_scores <= 3]
OutlierFilter(df) ==
    LET z == CleanZScores(df)
        idx == SelectIdx(Len(df), LAMBDA i : AbsLe(z[i], 3, 1))
    IN  Tuple([k \in 1..Len(idx) |-> df[idx[k]]])

\* din_instante is already datetime64 when it comes from ONSLoader.load
\* (loaders.py line 118), so the conversion branch of lines 77-78 is not taken.
clean_ons_data(df) == OutlierFilter(DropDuplicates(DropNa(df)))

----------------------------------------------------------------------------
(* Preprocessor.aggregate_inmet_by_region *)

\* A raw 'Data' cell is a string; fmt tells how it is written:
\* "slash" = YYYY/MM/DD, "dash" = YYYY-MM-DD, "none" = missing.
DataCell(fmt, day) == [fmt |-> fmt, day |-> day]

\* pd.to_datetime(Data, format='%Y/%m/%d', errors='coerce')
ParseSlash(cell) == IF cell.fmt = "slash" THEN cell.day ELSE NaT

\* Lines 112-114: the second to_datetime is applied to the column that
\* already holds the coerced result, so it changes nothing.
ParseData(cell) == ParseSlash(cell)

\* a set of dates in increasing order
SortDates(D) ==
    IF D = {} THEN <<>>
    ELSE LET lo == CHOOSE d \in D : \A e \in D : d <= e
             hi == CHOOSE d \in D : \A e \in D : e <= d
         IN  SelectSeq([i \in 1..(hi - lo + 1) |-> lo + i - 1], LAMBDA d : d \in D)

\* a set of <<region, date>> keys in sorted order: region first, then date
SortKeys(S) ==
    LET OfRegion(r) ==
            LET ds == SortDates({k[2] : k \in {o \in S : o[1] = RegionOrder[r]}})
            IN  Tuple([i \in 1..Len(ds) |-> <<RegionOrder[r], ds[i]>>])
    IN  ConcatRange(OfRegion, 1, Len(RegionOrder))

RMin(xs) == IF xs = <<>> THEN NaN ELSE CHOOSE x \in Range(xs) : \A y \in Range(xs) : RLe(x, y)

RMax(xs) == IF xs = <<>> THEN NaN ELSE CHOOSE x \in Range(xs) : \A y \in Range(xs) : RLe(y, x)

\* GroupBy.min / max / sum skip NaN; sum of no value is 0 (min_count = 0)
AggMin(xs) == RMin(NotNaN(xs))

AggMax(xs) == RMax(NotNaN(xs))

AggSum(xs) == RSum(NotNaN(xs))

\* a group of all the observations of the date, whatever their region
AggRowAnyRegion(df, key) ==
    LET g == SelectSeq(df, LAMBDA row : ParseData(row.Data) = key[2])
        temps == Tuple([i \in 1..Len(g) |-> g[i].temp])
        rads == Tuple([i \in 1..Len(g) |-> g[i].radiation])
        precs == Tuple([i \in 1..Len(g) |-> g[i].precip])
    IN  [region |-> key[1], date |-> key[2],
         temp_mean |-> Mean(temps), temp_min |-> AggMin(temps), temp_max |-> AggMax(temps),
         radiation_mean |-> Mean(rads), precipitation_total |-> AggSum(precs)]

AggRow(df, key) ==
    LET g == SelectSeq(df, LAMBDA row : row.region = key[1] /\ ParseData(row.Data) = key[2])
        temps == Tuple([i \in 1..Len(g) |-> g[i].temp])
        rads == Tuple([i \in 1..Len(g) |-> g[i].radiation])
        precs == Tuple([i \in 1..Len(g) |-> g[i].precip])
    IN  [region |-> key[1], date |-> key[2],
         temp_mean |-> Mean(temps), temp_min |-> AggMin(temps), temp_max |-> AggMax(temps),
         radiation_mean |-> Mean(rads), precipitation_total |-> AggSum(precs)]

\* groupby(['region', 'date']) drops the rows whose key is null (dropna=True)
aggregate_inmet_by_region(df) ==
    LET keys == SortKeys({<<df[i].region, ParseData(df[i].Data)>> :
                          i \in {j \in 1..Len(df) : ParseData(df[j].Data) # NaT}})
    IN  Tuple([k \in 1..Len(keys) |-> AggRow(df, keys[k])])

----------------------------------------------------------------------------
(* Preprocessor.merge_ons_inmet *)

MergedRow(o, w) ==
    [date |-> DtDate(o.din_instante), region |-> o.nom_subsistema,
     val_cargaenergiamwmed |-> o.val_cargaenergiamwmed,
     temp_mean |-> w.temp_mean, temp_min |-> w.temp_min, temp_max |-> w.temp_max,
     radiation_mean |-> w.radiation_mean, precipitation_total |-> w.precipitation_total]

JoinKeyMatch(o, w) ==
    /\ DtDate(o.din_instante) = w.date
    /\ o.nom_subsistema = w.region

\* pd.merge(..., on=['date', 'region'], how='inner'): for each left row, in
\* order, one output row per matching right row
\* how='left': a left row without a match is kept, its weather cells NaN
merge_left(ons, inmet) ==
    LET RowsOf(i) ==
            LET m == SelectSeq(inmet, LAMBDA w : JoinKeyMatch(ons[i], w))
            IN  IF m = <<>>
                THEN <<MergedRow(ons[i], [temp_mean |-> NaN, temp_min |-> NaN, temp_max |-> NaN,
                                           radiation_mean |-> NaN, precipitation_total |-> NaN])>>
                ELSE Tuple([k \in 1..Len(m) |-> MergedRow(ons[i], m[k])])
    IN  ConcatRange(RowsOf, 1, Len(ons))

merge_ons_inmet(ons, inmet) ==
    LET RowsOf(i) ==
            LET m == SelectSeq(inmet, LAMBDA w : JoinKeyMatch(ons[i], w))
            IN  Tuple([k \in 1..Len(m) |-> MergedRow(ons[i], m[k])])
    IN  ConcatRange(RowsOf, 1, Len(ons))

----------------------------------------------------------------------------
(* Preprocessor.engineer_features *)

\* year and month of a date (days since the epoch), proleptic Gregorian
CivilFromDays(days) ==
    LET z == days + 719468
        era == z \div 146097
        doe == z - era * 146097
        yoe == (doe - doe \div 1460 + doe \div 36524 - doe \div 146096) \div 365
        doy == doe - (365 * yoe + yoe \div 4 - yoe \div 100)
        mp == (5 * doy + 2) \div 153
        m == IF mp < 10 THEN mp + 3 ELSE mp - 9
    IN  [year |-> yoe + era * 400 + (IF m <= 2 THEN 1 ELSE 0), month |-> m,
         day |-> doy - (153 * mp + 2) \div 5 + 1]

\* Series.dt.dayofweek: Monday = 0; 1970-01-01 was a Thursday
DayOfWeek(days) == (days + 3) % 7

\* a map without the key 12: December has no season
SeasonDecemberMissing(month) ==
    IF month \in {1, 2} THEN "Summer"
    ELSE IF month \in {3, 4, 5} THEN "Fall"
    ELSE IF month \in {6, 7, 8} THEN "Winter"
    ELSE IF month \in {9, 10, 11} THEN "Spring"
    ELSE "NaN"

\* month.map({12: 'Summer', 1: 'Summer', ..., 11: 'Spring'}): a month that is
\* not a key of the map gives a missing value
Season(month) ==
    IF month \in {12, 1, 2} THEN "Summer"
    ELSE IF month \in {3, 4, 5} THEN "Fall"
    ELSE IF month \in {6, 7, 8} THEN "Winter"
    ELSE IF month \in {9, 10, 11} THEN "Spring"
    ELSE "NaN"

\* an unstable sort: the rows of equal key come out in an order that is not
\* the same from one call to the next
SortValuesUnstable(df) ==
    LET keys == SortKeys({<<df[i].region, df[i].date>> : i \in 1..Len(df)})
        RowsOf(k) == SelectSeq(df, LAMBDA row : row.region = keys[k][1] /\ row.date = keys[k][2])
        Reversed(t) == Tuple([j \in 1..Len(t) |-> t[Len(t) + 1 - j]])
        TiesOf(k) == IF pc = "merged" THEN RowsOf(k) ELSE Reversed(RowsOf(k))
    IN  ConcatRange(TiesOf, 1, Len(keys))

\* a sort that puts the rows of equal key in the reverse of their order
SortValuesReverseTies(df) ==
    LET keys == SortKeys({<<df[i].region, df[i].date>> : i \in 1..Len(df)})
        RowsOf(k) == SelectSeq(df, LAMBDA row : row.region = keys[k][1] /\ row.date = keys[k][2])
        Reversed(k) == Tuple([j \in 1..Len(RowsOf(k)) |-> RowsOf(k)[Len(RowsOf(k)) + 1 - j]])
    IN  ConcatRange(Reversed, 1, Len(keys))

\* sort_values(['region', 'date']): a multi-key sort is a stable lexsort, the
\* rows of equal key keep their order
SortValues(df) ==
    LET keys == SortKeys({<<df[i].region, df[i].date>> : i \in 1..Len(df)})
        RowsOf(k) == SelectSeq(df, LAMBDA row : row.region = keys[k][1] /\ row.date = keys[k][2])
    IN  ConcatRange(RowsOf, 1, Len(keys))

\* one group of all the rows, whatever their region
GroupAllRows(df, i) == SelectIdx(Len(df), LAMBDA j : TRUE)

\* the rows of the group of row i under groupby('region'), as indices
GroupOf(df, i) == SelectIdx(Len(df), LAMBDA j : df[j].region = df[i].region)

\* position of row i inside its group
RankIn(g, i) == CHOOSE k \in 1..Len(g) : g[k] = i

\* a rolling mean of min_periods = window: missing until the window is full
RollingMeanFullWindow(x, k, w) == IF k < w THEN NaN ELSE Mean(SubSeq(x, k - w + 1, k))

\* x.rolling(window=w, min_periods=1).mean() at position k
RollingMean(x, k, w) == Mean(SubSeq(x, IF k - w + 1 < 1 THEN 1 ELSE k - w + 1, k))

\* the groups' statistics with the population variance (divisor n)
GroupStatsPopulation(df) ==
    Tuple([r \in 1..Len(RegionOrder) |->
        LET x == LoadColumn(SelectSeq(df, LAMBDA row : row.region = RegionOrder[r]))
        IN  [mean |-> Mean(x), var |-> VarPopulation(x)]])

\* mean and variance of the load of each group of groupby('region')
GroupStats(df) ==
    Tuple([r \in 1..Len(RegionOrder) |->
        LET x == LoadColumn(SelectSeq(df, LAMBDA row : row.region = RegionOrder[r]))
        IN  [mean |-> Mean(x), var |-> Var(x)]])

\* (x - x.mean()) / x.std() for a value x of a group
GroupZScore(v, st) == ZScore(v, st.mean, st.var)

AnomalyThresholdNum == 5

AnomalyThresholdDen == 2

\* (np.abs(z) > 2.5).astype(int)
\* a flag that stays missing (-1) where the score is NaN
IsAnomalyKeepNaN(z) ==
    IF IsNaN(z.sq) THEN -1
    ELSE IF AbsGt(z, AnomalyThresholdNum, AnomalyThresholdDen) THEN 1 ELSE 0

\* the flag with the threshold of the cleaning step
IsAnomalyCleaningThreshold(z) == IF AbsGt(z, 3, 1) THEN 1 ELSE 0

IsAnomaly(z) == IF AbsGt(z, AnomalyThresholdNum, AnomalyThresholdDen) THEN 1 ELSE 0

MomPeriods == 30

\* the change itself, not divided by the earlier value
PctChangeDifference(x, k, periods) ==
    IF k <= periods THEN NaN
    ELSE RSub(x[k], x[k - periods])

\* pct_change(periods=30) at position k
PctChange(x, k, periods) ==
    IF k <= periods THEN NaN
    ELSE RSub(RDiv(x[k], x[k - periods]), I(1))

\* an assignment that keeps a trace of every run: where a column of new is
\* already in the table, one more column is added
WithColumnsGrowing(row, new) ==
    LET again == DOMAIN new \cap DOMAIN row
    IN  IF again = {} THEN new @@ row
        ELSE [c \in {"features_updated"} |-> Cardinality(again)] @@ new @@ row

\* feature_df[col] = ...: an assignment replaces the column of that name when
\* the table has one and adds the column otherwise; every other column stays
WithColumns(row, new) == new @@ row

FeatureRow(df, i, stats) ==
    LET row == df[i]
        g == GroupOf(df, i)
        k == RankIn(g, i)
        load == Tuple([j \in 1..Len(g) |-> df[g[j]].val_cargaenergiamwmed])
        temp == Tuple([j \in 1..Len(g) |-> df[g[j]].temp_mean])
        cal == CivilFromDays(row.date)
        z == GroupZScore(row.val_cargaenergiamwmed, stats[RegionRank(row.region)])
    IN  WithColumns(row,
            [day_of_week |-> DayOfWeek(row.date), month |-> cal.month, year |-> cal.year,
             season |-> Season(cal.month),
             load_ma_7d |-> RollingMean(load, k, 7), temp_ma_7d |-> RollingMean(temp, k, 7),
             load_ma_30d |-> RollingMean(load, k, 30),
             temp_ma_30d |-> RollingMean(temp, k, 30),
             load_zscore |-> z, is_anomaly |-> IsAnomaly(z),
             load_mom |-> PctChange(load, k, MomPeriods)])

engineer_features(df) ==
    LET sorted == SortValues(df)
        stats == GroupStats(sorted)
    IN  Tuple([i \in 1..Len(sorted) |-> FeatureRow(sorted, i, stats)])

----------------------------------------------------------------------------
(* scripts/generate_sample_years.py: a simulated year from a processed table *)

SampleYears == {2021, 2022, 2024}

BaseYear == 2023

\* date + pd.DateOffset(years=n): the same month and day n years later,
\* February 29 becoming February 28 in a year that has none
ShiftYears(date, n) ==
    LET cal == CivilFromDays(date)
        y == cal.year + n
        leap == (y % 4 = 0 /\ y % 100 # 0) \/ y % 400 = 0
        d == IF cal.month = 2 /\ cal.day = 29 /\ ~leap THEN 28 ELSE cal.day
    IN  DaysFromCivil(y, cal.month, d)

\* the draws of np.random.uniform for the rows of a table: any value of the
\* range is possible, the explored ones are no variation at all and a
\* variation that alternates from row to row
Variations == {"none", "alternating"}

\* the draw of uniform(-0.05, 0.05) for row i
Draw(v, i) == IF v = "none" THEN I(0) ELSE IF i % 2 = 1 THEN Norm(1, 25) ELSE Norm(-1, 25)

\* Series.clip(lower=0)
ClipLower0(x) == IF RLt(x, I(0)) THEN I(0) ELSE x

\* Lines 34-55: the dates moved to the target year, the year column set, and
\* the load, the temperatures, the radiation and the precipitation varied
VaryRow(row, e, target_year) ==
    LET t == RMul(I(40), e)  \* the draw of uniform(-2, 2)
    IN  WithColumns(row,
            [date |-> ShiftYears(row.date, target_year - BaseYear),
             year |-> target_year,
             val_cargaenergiamwmed |-> RMul(row.val_cargaenergiamwmed, RAdd(I(1), e)),
             temp_mean |-> RAdd(row.temp_mean, t),
             temp_min |-> RAdd(row.temp_min, t),
             temp_max |-> RAdd(row.temp_max, t),
             radiation_mean |-> RMul(row.radiation_mean, RAdd(I(1), RMul(I(2), e))),
             precipitation_total |->
                 ClipLower0(RMul(row.precipitation_total, RAdd(I(1), RMul(I(4), e))))])

SampleAnomalyThresholdNum == 3

SampleAnomalyThresholdDen == 1

\* the flag under the threshold of engineer_features
SampleIsAnomalyPipelineThreshold(z) ==
    IF AbsGt(z, AnomalyThresholdNum, AnomalyThresholdDen) THEN 1 ELSE 0

\* (df['load_zscore'].abs() > 3).astype(int)
SampleIsAnomaly(z) ==
    IF AbsGt(z, SampleAnomalyThresholdNum, SampleAnomalyThresholdDen) THEN 1 ELSE 0

\* the columns among new that the table has: "if col in df.columns"
Existing(row, new) == [c \in DOMAIN new \cap DOMAIN row |-> new[c]]

\* Lines 58-106: the derived columns the table has are computed again, per
\* region and in the row order of the table.  A processed table has no
\* temp_range, lag or interaction column.
RecomputedRow(df, i, stats) ==
    LET row == df[i]
        g == GroupOf(df, i)
        k == RankIn(g, i)
        load == Tuple([j \in 1..Len(g) |-> df[g[j]].val_cargaenergiamwmed])
        temp == Tuple([j \in 1..Len(g) |-> df[g[j]].temp_mean])
        z == GroupZScore(row.val_cargaenergiamwmed, stats[RegionRank(row.region)])
    IN  WithColumns(row, Existing(row,
            [load_zscore |-> z, is_anomaly |-> SampleIsAnomaly(z),
             load_ma_7d |-> RollingMean(load, k, 7), temp_ma_7d |-> RollingMean(temp, k, 7),
             load_ma_30d |-> RollingMean(load, k, 30),
             temp_ma_30d |-> RollingMean(temp, k, 30),
             load_mom |-> PctChange(load, k, MomPeriods)]))

generate_year_data(base_df, target_year, v) ==
    LET df == Tuple([i \in 1..Len(base_df) |->
                  VaryRow(base_df[i], Draw(v, i), target_year)])
        stats == GroupStats(df)
    IN  Tuple([i \in 1..Len(df) |-> RecomputedRow(df, i, stats)])

----------------------------------------------------------------------------
(* src/utils/config.py and the loaders of src/data/loaders.py *)

STATE_TO_REGION ==
    [s \in {"AC", "AP", "AM", "PA", "RO", "RR", "TO"} |-> "Norte"] @@
    [s \in {"AL", "BA", "CE", "MA", "PB", "PE", "PI", "RN", "SE"} |-> "Nordeste"] @@
    [s \in {"ES", "MG", "RJ", "SP", "DF", "GO", "MT", "MS"} |-> "Sudeste/Centro-Oeste"] @@
    [s \in {"PR", "RS", "SC"} |-> "Sul"]

\* str.upper() on the codes of the explored file names
Upper(s) == IF s = "rs" THEN "RS" ELSE IF s = "xx" THEN "XX" ELSE s

\* every unmapped state becomes the first real region
GetRegionDefaultNorte(state_code) ==
    IF Upper(state_code) \in DOMAIN STATE_TO_REGION
    THEN STATE_TO_REGION[Upper(state_code)] ELSE "Norte"

\* STATE_TO_REGION.get(state_code.upper(), 'Unknown')
get_region_from_state(state_code) ==
    IF Upper(state_code) \in DOMAIN STATE_TO_REGION
    THEN STATE_TO_REGION[Upper(state_code)] ELSE "Unknown"

\* A file name is kept as the list of its parts, filename.split('_')
extract_state_from_filename(parts) == IF Len(parts) >= 3 THEN parts[3] ELSE "UNKNOWN"

\* parts[3] if len(parts) > 3 else 'UNKNOWN', with Python's indices from 0
StationCode(parts) == IF Len(parts) > 3 THEN parts[4] ELSE "UNKNOWN"

\* A station file of the archive: its name, whether read_csv reads it, and
\* the observations it holds.
StationFile(name, parses, rows) == [name |-> name, parses |-> parses, rows |-> rows]

RawRow(data, t, rad, p) == [Data |-> data, temp |-> t, radiation |-> rad, precip |-> p]

\* the files read before the first file that fails: one failure ends the loop
ParsedUntilFailure(files) ==
    LET bad == {i \in 1..Len(files) : ~files[i].parses}
    IN  IF bad = {} THEN files
        ELSE SubSeq(files, 1, (CHOOSE i \in bad : \A j \in bad : i <= j) - 1)

\* _extract_station_data: a file that raises is skipped (try / except / continue)
ParsedFiles(files) == SelectSeq(files, LAMBDA f : f.parses)

\* the frame of one station file, with the metadata columns added to it
StationFrame(f) ==
    Tuple([j \in 1..Len(f.rows) |->
        [Data |-> f.rows[j].Data, temp |-> f.rows[j].temp,
         radiation |-> f.rows[j].radiation, precip |-> f.rows[j].precip,
         station_code |-> StationCode(f.name),
         state_code |-> extract_state_from_filename(f.name)]])

extract_station_data(files) ==
    LET ok == ParsedFiles(files)
    IN  Tuple([i \in 1..Len(ok) |-> StationFrame(ok[i])])

\* pd.concat(station_dfs) and the region column of line 298
ConcatStations(station_dfs) ==
    LET Frame(i) ==
            Tuple([j \in 1..Len(station_dfs[i]) |->
                LET row == station_dfs[i][j]
                IN  [region |-> get_region_from_state(row.state_code),
                     Data |-> row.Data, temp |-> row.temp, radiation |-> row.radiation,
                     precip |-> row.precip, station_code |-> row.station_code,
                     state_code |-> row.state_code]])
    IN  ConcatRange(Frame, 1, Len(station_dfs))

----------------------------------------------------------------------------
(* Inputs of Preprocessor.process explored by the model *)

R1 == "Norte"

R2 == "Sul"

\* small load tables with missing cells, duplicate keys and hourly records
OnsCompleteRecs ==
    {OnsRow(ts, r, v) : ts \in {At(Day0, 0), At(Day0, 1)}, r \in {R1, R2},
                        v \in {I(10), I(25)}}
    \cup {OnsRow(At(Day0, 0), R1, I(-5))}

OnsIncompleteRecs ==
    {OnsRow(NaT, R1, I(10)), OnsRow(At(Day0, 0), NoRegion, I(10)),
     OnsRow(At(Day0, 0), R1, NaN), OnsRow(At(Day0, 1), R2, NaN),
     OnsRow(NaT, NoRegion, NaN)}

OnsFreeRecs == OnsCompleteRecs \cup OnsIncompleteRecs

\* one observation per region and day, every variable present
InmetCover(lo, hi) ==
    LET days == hi - lo + 1
    IN  Tuple([i \in 1..(2 * days) |->
            LET day == lo + ((i - 1) \div 2)
            IN  InmetRow(IF i % 2 = 1 THEN R1 ELSE R2, DataCell("slash", day),
                         I(20 + (day % 3)), I(5), I(1))])

InmetVals == {<<I(20), I(5), I(2)>>, <<I(30), I(7), I(0)>>,
              <<NaN, I(5), I(2)>>, <<I(20), NaN, NaN>>}

\* read_csv (loaders.py lines 217-223) reads any number as it is written, a
\* negative precipitation such as the -9999 of the INMET files included
InmetFreeRecs ==
    {InmetRow(R1, c, v[1], v[2], v[3]) :
        c \in {DataCell("slash", Day0), DataCell("slash", Day0 + 1)}, v \in InmetVals}
    \cup
    {InmetRow(R2, DataCell("slash", Day0), I(30), I(7), I(0)),
     InmetRow(R2, DataCell("slash", Day0), NaN, I(5), I(2)),
     InmetRow(R1, DataCell("dash", Day0), I(20), I(5), I(2)),
     InmetRow(R1, DataCell("slash", Day0), I(20), I(5), I(-9999))}

\* two observations of other keys
InmetBase ==
    <<InmetRow(R2, DataCell("slash", Day0), I(25), I(6), I(3)),
      InmetRow(R1, DataCell("slash", Day0 + 1), I(22), I(6), I(3))>>

\* one load record per region and day
OnsFixed ==
    <<OnsRow(At(Day0, 0), R1, I(10)), OnsRow(At(Day0, 0), R2, I(30)),
      OnsRow(At(Day0 + 1, 0), R1, I(12)), OnsRow(At(Day0 + 1, 0), R2, I(30))>>

\* two complete records of other keys and different loads
OnsBase == <<OnsRow(At(Day0 + 1, 0), R1, I(12)), OnsRow(At(Day0 + 1, 0), R2, I(30))>>

\* k daily records of region R1 on the k days before Day0
BulkLoad(pat, i) == IF pat = "flat" THEN 10 ELSE 10 + ((i * i) % 5)

OnsBulk(k, pat) ==
    Tuple([i \in 1..k |-> OnsRow(At(Day0 - k + i - 1, 0), R1, I(BulkLoad(pat, i)))])

\* ten consecutive days of one region, one of them far from the others
ExampleLoads == <<100, 102, 98, 101, 99, 250, 100, 103, 97, 102>>

OnsExample ==
    Tuple([i \in 1..Len(ExampleLoads) |->
        OnsRow(At(Day0 - Len(ExampleLoads) + i, 0), R1, I(ExampleLoads[i]))])

\* the fifteenth day of month m of the base year
MidMonth(m) == DaysFromCivil(2023, m, 15)

\* one load record of region R1 in each month of the year, and its weather
OnsMonthly == Tuple([m \in 1..12 |-> OnsRow(At(MidMonth(m), 0), R1, I(10 + m))])

InmetMonthly ==
    Tuple([m \in 1..12 |-> InmetRow(R1, DataCell("slash", MidMonth(m)), I(20), I(5), I(1))])

BulkFreeRecs ==
    {OnsRow(At(Day0, 0), r, I(v)) : r \in {R1, R2}, v \in {11, 20, 100}}
    \cup {OnsRow(At(Day0 + 1, 0), R1, I(100))}

\* the arguments of process(ons_df, inmet_df, save)
SmallInputs ==
    {[ons |-> base \o f, inmet |-> InmetCover(Day0, Day0 + 1), save |-> TRUE] :
        base \in {<<>>, OnsBase}, f \in SeqsUpTo(OnsFreeRecs, MaxOnsFree)}
    \cup
    {[ons |-> OnsFixed, inmet |-> base \o w, save |-> (base = <<>>)] :
        base \in {<<>>, InmetBase}, w \in SeqsUpTo(InmetFreeRecs, MaxInmetFree)}
    \cup
    \* the load of one day and the weather of the day before
    {[ons |-> OnsBase, inmet |-> InmetCover(Day0, Day0), save |-> TRUE]}

BulkInputs ==
    {[ons |-> OnsBulk(2, "flat") \o f, inmet |-> InmetCover(Day0 - 2 + sh, Day0 + 1),
      save |-> TRUE] :
        sh \in {0, 1}, f \in SeqsUpTo(BulkFreeRecs, MaxBulkFree)}
    \cup
    {[ons |-> OnsBulk(k, pat) \o f, inmet |-> InmetCover(Day0 - k, Day0 + 1), save |-> TRUE] :
        k \in {9}, pat \in {"flat", "ramp"}, f \in SeqsUpTo(BulkFreeRecs, MaxBulkFree)}
    \cup
    {[ons |-> OnsBulk(MaxBulk, "ramp") \o f, inmet |-> InmetCover(Day0 - MaxBulk, Day0 + 1),
      save |-> TRUE] :
        f \in SeqsUpTo(BulkFreeRecs, 1)}
    \cup
    {[ons |-> OnsBulk(7, "flat") \o f, inmet |-> InmetCover(Day0 - 7, Day0 + 1), save |-> TRUE] :
        f \in SeqsUpTo(BulkFreeRecs, MaxBulkFree)}
    \cup
    {[ons |-> OnsExample, inmet |-> InmetCover(Day0 - Len(ExampleLoads), Day0), save |-> TRUE],
     [ons |-> OnsMonthly, inmet |-> InmetMonthly, save |-> TRUE],
     \* more than thirty days of one region and a day of both regions
     [ons |-> OnsBulk(MaxBulk, "ramp")
                 \o <<OnsRow(At(Day0, 0), R1, I(20)), OnsRow(At(Day0, 0), R2, I(20))>>,
      inmet |-> InmetCover(Day0 - MaxBulk, Day0), save |-> TRUE]}

Inputs == SmallInputs \cup BulkInputs

\* the station files of a year's archive
FileAM == <<"INMET", "N", "AM", "A101", "MANAUS.CSV">>

FileRS == <<"INMET", "S", "rs", "A801", "PORTO ALEGRE.CSV">>

FileXX == <<"INMET", "N", "XX", "A999", "NOWHERE.CSV">>

FileShort == <<"STATION.CSV">>

StationFiles ==
    {StationFile(FileAM, TRUE, <<RawRow(DataCell("slash", Day0), I(20), I(5), I(2)),
                                 RawRow(DataCell("slash", Day0), I(30), I(7), I(0))>>),
     StationFile(FileRS, TRUE, <<RawRow(DataCell("slash", Day0), I(25), I(6), I(3))>>),
     StationFile(FileXX, TRUE, <<RawRow(DataCell("slash", Day0), I(22), I(6), I(1))>>),
     StationFile(FileShort, TRUE, <<RawRow(DataCell("slash", Day0 + 1), I(21), I(6), I(1))>>),
     StationFile(FileAM, FALSE, <<>>),
     StationFile(FileXX, FALSE, <<>>)}

\* the functions that run the pipeline for a year
Callers == {"test_pipeline", "process_year", "load_processed_data_single_year"}

\* a feed that is not fetched: process is called on tables already loaded
NoFeed == [status |-> "none"]

\* a station of region R1 that observed the ten days up to Day0, and ten
\* daily loads of that region, the last one far from the others
FileTenDays ==
    StationFile(FileAM, TRUE,
        Tuple([i \in 1..10 |-> RawRow(DataCell("slash", Day0 - 10 + i), I(20), I(5), I(2))]))

OnsTenDays == OnsBulk(9, "flat") \o <<OnsRow(At(Day0, 0), R1, I(100))>>

\* a year's run: the outcome of fetching each feed and what the feed holds
YearInputs ==
    {[caller |-> c, ons |-> [status |-> "ok", table |-> OnsFixed],
      inmet |-> [status |-> "ok", files |-> fs]] :
        c \in Callers, fs \in SeqsUpTo(StationFiles, MaxStations)}
    \cup
    {[caller |-> c, ons |-> [status |-> st[1], table |-> OnsFixed],
      inmet |-> [status |-> st[2], files |-> <<>>]] :
        c \in Callers, st \in {<<"http_error", "ok">>, <<"ok", "http_error">>}}
    \cup
    {[caller |-> "process_year", ons |-> [status |-> "ok", table |-> OnsTenDays],
      inmet |-> [status |-> "ok", files |-> <<FileTenDays>>]]}

----------------------------------------------------------------------------
(* Preprocessor.process as a state machine: one action per stage *)

\* a parquet file of data/processed: absent, or holding the table written last
NoFile == [exists |-> FALSE, table |-> <<>>]

File(table) == [exists |-> TRUE, table |-> table]

InitProcess ==
    /\ pc = "start"
    /\ \E in \in Inputs : ons_df = in.ons /\ inmet_df = in.inmet /\ save = in.save
    /\ caller = "process"
    /\ feed_ons = NoFeed
    /\ feed_inmet = NoFeed

\* test_pipeline.main calls process with save=True, the two other callers
\* with save=False
InitYear ==
    /\ pc = "load_ons"
    /\ \E in \in YearInputs :
        /\ caller = in.caller
        /\ feed_ons = in.ons
        /\ feed_inmet = in.inmet
    /\ save = (caller = "test_pipeline")
    /\ ons_df = <<>>
    /\ inmet_df = <<>>

Init ==
    /\ InitProcess \/ InitYear
    /\ ons_clean = <<>>
    /\ inmet_agg = <<>>
    /\ merged = <<>>
    /\ final_df = <<>>
    /\ saved = NoFile
    /\ generated = NoFile
    /\ error = "none"

\* ONSLoader.load: the download raises on an HTTP error (raise_for_status)
LoadOns ==
    /\ pc = "load_ons"
    /\ feed_ons.status = "ok"
    /\ ons_df' = feed_ons.table  \* the typed table of lines 110-122
    /\ pc' = "load_inmet"
    /\ UNCHANGED <<caller, feed_ons, feed_inmet, error, save, inmet_df, ons_clean, inmet_agg,
                   merged, final_df, saved, generated>>

LoadOnsRaises ==
    /\ pc = "load_ons"
    /\ feed_ons.status = "http_error"
    /\ pc' = "error"
    /\ error' = "HTTPError"
    /\ UNCHANGED <<caller, feed_ons, feed_inmet, save, ons_df, inmet_df, ons_clean, inmet_agg,
                   merged, final_df, saved, generated>>

\* INMETLoader.load
LoadInmet ==
    /\ pc = "load_inmet"
    /\ feed_inmet.status = "ok"
    /\ extract_station_data(feed_inmet.files) # <<>>
    /\ inmet_df' = ConcatStations(extract_station_data(feed_inmet.files))
    /\ pc' = "start"
    /\ UNCHANGED <<caller, feed_ons, feed_inmet, error, save, ons_df, ons_clean, inmet_agg,
                   merged, final_df, saved, generated>>

LoadInmetRaises ==
    /\ pc = "load_inmet"
    /\ feed_inmet.status = "http_error"
    /\ pc' = "error"
    /\ error' = "HTTPError"
    /\ UNCHANGED <<caller, feed_ons, feed_inmet, save, ons_df, inmet_df, ons_clean, inmet_agg,
                   merged, final_df, saved, generated>>

\* Lines 291-292: no station frame at all
LoadInmetNoValidData ==
    /\ pc = "load_inmet"
    /\ feed_inmet.status = "ok"
    /\ extract_station_data(feed_inmet.files) = <<>>
    /\ pc' = "error"
    /\ error' = "ValueError"
    /\ UNCHANGED <<caller, feed_ons, feed_inmet, save, ons_df, inmet_df, ons_clean, inmet_agg,
                   merged, final_df, saved, generated>>

\* Step 1.  Line 81 divides by initial_rows: an empty table raises
\* ZeroDivisionError.
CleanOnsData ==
    /\ pc = "start"
    /\ Len(ons_df) > 0
    /\ ons_clean' = clean_ons_data(ons_df)
    /\ pc' = "cleaned"
    /\ UNCHANGED <<caller, feed_ons, feed_inmet, error, save, ons_df, inmet_df, inmet_agg,
                   merged, final_df, saved, generated>>

CleanOnsDataRaises ==
    /\ pc = "start"
    /\ Len(ons_df) = 0
    /\ pc' = "error"
    /\ error' = "ZeroDivisionError"
    /\ UNCHANGED <<caller, feed_ons, feed_inmet, save, ons_df, inmet_df, ons_clean, inmet_agg,
                   merged, final_df, saved, generated>>

\* Step 2
AggregateInmetByRegion ==
    /\ pc = "cleaned"
    /\ inmet_agg' = aggregate_inmet_by_region(inmet_df)
    /\ pc' = "aggregated"
    /\ UNCHANGED <<caller, feed_ons, feed_inmet, error, save, ons_df, inmet_df, ons_clean,
                   merged, final_df, saved, generated>>

\* Step 3
MergeOnsInmet ==
    /\ pc = "aggregated"
    /\ merged' = merge_ons_inmet(ons_clean, inmet_agg)
    /\ pc' = "merged"
    /\ UNCHANGED <<caller, feed_ons, feed_inmet, error, save, ons_df, inmet_df, ons_clean,
                   inmet_agg, final_df, saved, generated>>

\* Step 4
EngineerFeatures ==
    /\ pc = "merged"
    /\ final_df' = engineer_features(merged)
    /\ pc' = "engineered"
    /\ UNCHANGED <<caller, feed_ons, feed_inmet, error, save, ons_df, inmet_df, ons_clean,
                   inmet_agg, merged, saved, generated>>

\* Step 5: to_parquet when save is set
SaveOutput ==
    /\ pc = "engineered"
    /\ save
    /\ saved' = File(final_df)
    /\ pc' = "done"
    /\ UNCHANGED <<caller, feed_ons, feed_inmet, error, save, ons_df, inmet_df, ons_clean,
                   inmet_agg, merged, final_df, generated>>

\* the file written whatever save says
SkipSaveWrites ==
    /\ pc = "engineered"
    /\ ~save
    /\ saved' = File(final_df)
    /\ pc' = "done"
    /\ UNCHANGED <<caller, feed_ons, feed_inmet, error, save, ons_df, inmet_df, ons_clean,
                   inmet_agg, merged, final_df, generated>>

SkipSave ==
    /\ pc = "engineered"
    /\ ~save
    /\ pc' = "done"
    /\ UNCHANGED <<caller, feed_ons, feed_inmet, error, save, ons_df, inmet_df, ons_clean,
                   inmet_agg, merged, final_df, saved, generated>>

\* process has returned to test_pipeline.main, which ends normally
CallerEnds ==
    /\ pc = "done"
    /\ caller = "test_pipeline"
    /\ pc' = "returned"
    /\ UNCHANGED <<caller, feed_ons, feed_inmet, error, save, ons_df, inmet_df, ons_clean,
                   inmet_agg, merged, final_df, saved, generated>>

\* process_year and load_processed_data_single_year write the table
\* themselves (df.to_parquet) and return
CallerSavesAndReturns ==
    /\ pc = "done"
    /\ caller \in {"process_year", "load_processed_data_single_year"}
    /\ saved' = File(final_df)
    /\ pc' = "returned"
    /\ UNCHANGED <<caller, feed_ons, feed_inmet, error, save, ons_df, inmet_df, ons_clean,
                   inmet_agg, merged, final_df, generated>>

\* except Exception: process_year returns False and
\* load_processed_data_single_year returns an empty DataFrame
CallerExceptReturns ==
    /\ pc = "error"
    /\ caller \in {"process_year", "load_processed_data_single_year"}
    /\ pc' = "returned"
    /\ UNCHANGED <<caller, feed_ons, feed_inmet, error, save, ons_df, inmet_df, ons_clean,
                   inmet_agg, merged, final_df, saved, generated>>

\* test_pipeline.main has no handler: the exception leaves it
CallerRaises ==
    /\ pc = "error"
    /\ caller = "test_pipeline"
    /\ pc' = "raised"
    /\ UNCHANGED <<caller, feed_ons, feed_inmet, error, save, ons_df, inmet_df, ons_clean,
                   inmet_agg, merged, final_df, saved, generated>>

\* process has written energy_weather_processed.parquet and its caller is over
ProcessedFileWritten ==
    /\ saved.exists
    /\ \/ caller = "process" /\ pc = "done" /\ save
       \/ caller = "test_pipeline" /\ pc = "returned"

\* update_features.main: the processed file is read, engineer_features is
\* applied to its table and the result is written over it
UpdateFeatures ==
    /\ ProcessedFileWritten
    /\ saved' = File(engineer_features(saved.table))
    /\ pc' = "updated"
    /\ UNCHANGED <<caller, feed_ons, feed_inmet, error, save, ons_df, inmet_df, ons_clean,
                   inmet_agg, merged, final_df, generated>>

\* generate_sample_years.main: the file process_year has written for the base
\* year is read and the table of one of the sample years is written
GenerateYearData ==
    /\ pc = "returned"
    /\ caller = "process_year"
    /\ saved.exists
    /\ \E target_year \in SampleYears, v \in Variations :
           generated' = File(generate_year_data(saved.table, target_year, v))
    /\ pc' = "generated"
    /\ UNCHANGED <<caller, feed_ons, feed_inmet, error, save, ons_df, inmet_df, ons_clean,
                   inmet_agg, merged, final_df, saved>>

Next ==
    \/ LoadOns
    \/ LoadOnsRaises
    \/ LoadInmet
    \/ LoadInmetRaises
    \/ LoadInmetNoValidData
    \/ CleanOnsData
    \/ CleanOnsDataRaises
    \/ AggregateInmetByRegion
    \/ MergeOnsInmet
    \/ EngineerFeatures
    \/ SaveOutput
    \/ SkipSave
    \/ CallerEnds
    \/ CallerSavesAndReturns
    \/ CallerExceptReturns
    \/ CallerRaises
    \/ UpdateFeatures
    \/ GenerateYearData

Spec == Init /\ [][Next]_vars

----------------------------------------------------------------------------
(* Properties *)

Engineered == pc \in {"engineered", "done"}

Merged == pc \in {"merged", "engineered", "done"}

Cleaned == pc \in {"cleaned", "aggregated", "merged", "engineered", "done"}

RegionsIn(df) == {df[i].region : i \in 1..Len(df)}

RowsOfRegion(df, r) == SelectSeq(df, LAMBDA row : row.region = r)

\* the rows of region r dated d or earlier
OwnPast(df, r, d) == SelectSeq(df, LAMBDA row : row.region = r /\ row.date <= d)

\* position of row i among the rows of its region
RankInRegion(df, i) == Cardinality({j \in 1..i : df[j].region = df[i].region})

\* C1: load_ma_7d and load_ma_30d of a row depend only on the rows of the
\* same region dated no later than the row: the values computed from the whole
\* merged table are the values computed from that part of the table alone, so
\* two merged tables that agree on that part (whatever rows of other regions
\* or later rows of the region are changed, added or removed) give the row the
\* same moving averages.
C1_MovingAverageOwnPast ==
    pc = "engineered" =>
        \A i \in 1..Len(final_df) :
            LET row == final_df[i]
                alone == engineer_features(OwnPast(merged, row.region, row.date))
                k == RankInRegion(final_df, i)
            IN  /\ alone[k].load_ma_7d = row.load_ma_7d
                /\ alone[k].load_ma_30d = row.load_ma_30d

\* a region with more rows than the longest window, next to another region
C1_Witness ==
    /\ pc = "engineered"
    /\ \E i, j \in 1..Len(final_df) :
        /\ RankInRegion(final_df, i) > 30
        /\ final_df[j].region # final_df[i].region
        /\ final_df[i].load_ma_30d # final_df[i].load_ma_7d

\* integer sums over the integral loads of the explored inputs
RECURSIVE ISumRange(_, _, _)
ISumRange(F(_), lo, hi) ==
    IF lo > hi THEN 0
    ELSE IF lo = hi THEN F(lo)
    ELSE LET mid == (lo + hi) \div 2
         IN  ISumRange(F, lo, mid) + ISumRange(F, mid + 1, hi)

\* n * x - S, the deviation of x from the mean S / n of xs, scaled by n
ScaledDev(xs, x) ==
    LET S == ISumRange(LAMBDA j : xs[j].n, 1, Len(xs)) IN Len(xs) * x.n - S

\* the sum of the squared scaled deviations
ScaledSq(xs) ==
    LET S == ISumRange(LAMBDA j : xs[j].n, 1, Len(xs))
    IN  ISumRange(LAMBDA j : (Len(xs) * xs[j].n - S) * (Len(xs) * xs[j].n - S), 1, Len(xs))

\* |x - mu| / sigma > tn / td, with mu the mean of xs and sigma its standard
\* deviation of divisor Len(xs) - ddof; not so when sigma is zero or undefined
ZExceeds(xs, x, tn, td, ddof) ==
    LET n == Len(xs)
        dev == ScaledDev(xs, x)
        Q == ScaledSq(xs)
    IN  /\ n - ddof > 0
        /\ Q > 0
        /\ td * td * dev * dev * (n - ddof) > tn * tn * Q

\* C2: is_anomaly is 1 exactly when |load - mu_r| / sigma_r > 2.5 and 0
\* otherwise, mu_r and sigma_r being the mean and the (sample) standard
\* deviation of the load over all the rows of the row's own region.
C2_AnomalyFlagIsRegionZScoreRule ==
    Engineered =>
        \A i \in 1..Len(final_df) :
            LET own == LoadColumn(RowsOfRegion(final_df, final_df[i].region))
            IN  final_df[i].is_anomaly =
                    IF ZExceeds(own, final_df[i].val_cargaenergiamwmed, 5, 2, 1) THEN 1 ELSE 0

\* a flagged row and an unflagged row, with a second region in the table
C2_Witness ==
    /\ Engineered
    /\ \E i, j, k \in 1..Len(final_df) :
        /\ final_df[i].is_anomaly = 1
        /\ final_df[j].is_anomaly = 0
        /\ final_df[k].region # final_df[i].region

LoadKeys == {<<DtDate(ons_clean[i].din_instante), ons_clean[i].nom_subsistema>> :
                i \in 1..Len(ons_clean)}

WeatherKeys == {<<inmet_agg[i].date, inmet_agg[i].region>> : i \in 1..Len(inmet_agg)}

MergedKeys == {<<merged[i].date, merged[i].region>> : i \in 1..Len(merged)}

\* C3: a key (date, region) is in the merged table exactly when the cleaned
\* load has a record of that region on that date and the aggregated weather
\* has a row of that date and region.
C3_InnerJoinKeys == Merged => MergedKeys = LoadKeys \cap WeatherKeys

\* load dates {D1, D2, D3} and weather dates {D2, D3, D4} of one region give
\* exactly {D2, D3}
C3_Witness ==
    /\ Merged
    /\ \E r \in RegionsIn(merged) : \E d \in {k[1] : k \in LoadKeys} :
        /\ {k[1] : k \in {o \in LoadKeys : o[2] = r}} = {d, d + 1, d + 2}
        /\ {k[1] : k \in {o \in WeatherKeys : o[2] = r}} = {d + 1, d + 2, d + 3}
        /\ {k[1] : k \in {o \in MergedKeys : o[2] = r}} = {d + 1, d + 2}

\* C4: the merged table has at most one row per (date, region).
C4_OneRowPerDateRegion ==
    Merged =>
        \A i, j \in 1..Len(merged) :
            (merged[i].date = merged[j].date /\ merged[i].region = merged[j].region) => i = j

Complete(row) ==
    /\ row.din_instante # NaT
    /\ ~IsNaN(row.val_cargaenergiamwmed)
    /\ row.nom_subsistema # NoRegion

\* the complete records of a table, one per key: the first of each key
CompleteDeduplicated(df) ==
    LET c == SelectSeq(df, Complete)
        idx == SelectIdx(Len(c), LAMBDA i : \A j \in 1..(i - 1) : ~SameKey(c[j], c[i]))
    IN  Tuple([k \in 1..Len(idx) |-> c[idx[k]]])

\* C5: when the complete, deduplicated records, two or more, all have the same
\* load (standard deviation zero), none is removed as an outlier: the output
\* is all of them.
C5_ConstantSeriesKeepsAll ==
    Cleaned =>
        LET base == CompleteDeduplicated(ons_df)
        IN  (/\ Len(base) >= 2
             /\ \A i, j \in 1..Len(base) :
                    base[i].val_cargaenergiamwmed = base[j].val_cargaenergiamwmed)
            => ons_clean = base

\* C6: is_anomaly is 0 or 1 in every row, never missing.
C6_AnomalyFlagIsBinary ==
    Engineered => \A i \in 1..Len(final_df) : final_df[i].is_anomaly \in {0, 1}

\* a region of several rows and zero variance next to a region of a single row
C6_Witness ==
    /\ Engineered
    /\ \E i, j, k \in 1..Len(final_df) :
        /\ i # j
        /\ final_df[i].region = final_df[j].region
        /\ \A m \in 1..Len(final_df) :
            final_df[m].region = final_df[i].region
                => final_df[m].val_cargaenergiamwmed = final_df[i].val_cargaenergiamwmed
        /\ Len(RowsOfRegion(final_df, final_df[k].region)) = 1
        /\ IsNaN(final_df[i].load_zscore.sq)
        /\ IsNaN(final_df[k].load_zscore.sq)

\* C7: every merged row has a load and the five weather aggregates, none missing.
C7_MergedRowsComplete ==
    Merged =>
        \A i \in 1..Len(merged) :
            /\ ~IsNaN(merged[i].val_cargaenergiamwmed)
            /\ ~IsNaN(merged[i].temp_mean)
            /\ ~IsNaN(merged[i].temp_min)
            /\ ~IsNaN(merged[i].temp_max)
            /\ ~IsNaN(merged[i].radiation_mean)
            /\ ~IsNaN(merged[i].precipitation_total)

\* C8 as stated: with the population standard deviation (divisor n) of the
\* complete, deduplicated loads of all regions, a record whose Z-score is
\* defined is removed exactly when |Z| > 3.
C8_PopulationZScoreFilter ==
    Cleaned =>
        LET base == CompleteDeduplicated(ons_df)
            col == LoadColumn(base)
        IN  \A i \in 1..Len(base) :
                ScaledSq(col) > 0 =>
                    ((base[i] \in Range(ons_clean)) <=> ~ZExceeds(col, col[i], 3, 1, 0))

\* C8 amended: the standard deviation is the sample one (divisor n - 1); a
\* complete, deduplicated record is kept exactly when its Z-score over the
\* loads of all regions together is defined and |Z| <= 3.
C8_SampleZScoreFilter ==
    Cleaned =>
        LET base == CompleteDeduplicated(ons_df)
            col == LoadColumn(base)
        IN  /\ Range(ons_clean) \subseteq Range(base)
            /\ \A i \in 1..Len(base) :
                (base[i] \in Range(ons_clean)) <=>
                    /\ Len(base) >= 2
                    /\ ScaledSq(col) > 0
                    /\ ~ZExceeds(col, col[i], 3, 1, 1)

\* a record removed for |Z| > 3 while others are kept, two regions in the table
C8_Witness ==
    /\ Cleaned
    /\ LET base == CompleteDeduplicated(ons_df)
           col == LoadColumn(base)
       IN  /\ \E i \in 1..Len(base) :
                ZExceeds(col, col[i], 3, 1, 1) /\ base[i] \notin Range(ons_clean)
           /\ \E i, j \in 1..Len(ons_clean) :
                ons_clean[i].nom_subsistema # ons_clean[j].nom_subsistema

FirstWithKey(df, row) == df[CHOOSE i \in 1..Len(df) :
                              SameKey(df[i], row) /\ \A j \in 1..(i - 1) : ~SameKey(df[j], row)]

KeysUnique(df) == \A i, j \in 1..Len(df) : SameKey(df[i], df[j]) => i = j

\* C9 as stated: one record per (timestamp, region code), and the record
\* kept is the first record of the input that has its key.
C9_KeepsFirstOccurrence ==
    Cleaned =>
        /\ KeysUnique(ons_clean)
        /\ \A i \in 1..Len(ons_clean) : ons_clean[i] = FirstWithKey(ons_df, ons_clean[i])

\* C9 amended: the record kept is the first of the records of its key that
\* have all three fields present.
C9_KeepsFirstCompleteOccurrence ==
    Cleaned =>
        /\ KeysUnique(ons_clean)
        /\ \A i \in 1..Len(ons_clean) :
            ons_clean[i] = FirstWithKey(SelectSeq(ons_df, Complete), ons_clean[i])

\* two complete records of one key and different loads, the first one kept
C9_Witness ==
    /\ Cleaned
    /\ \E i, j \in 1..Len(ons_df) :
        /\ i < j
        /\ Complete(ons_df[i]) /\ Complete(ons_df[j])
        /\ SameKey(ons_df[i], ons_df[j])
        /\ ons_df[i] # ons_df[j]
        /\ ons_df[i] \in Range(ons_clean)

\* C10: every output record has the three fields present and is a record of
\* the input, unchanged; no incomplete input record is in the output.
C10_IncompleteDroppedNotImputed ==
    Cleaned =>
        /\ \A i \in 1..Len(ons_clean) : Complete(ons_clean[i]) /\ ons_clean[i] \in Range(ons_df)
        /\ \A i \in 1..Len(ons_df) : ~Complete(ons_df[i]) => ons_df[i] \notin Range(ons_clean)

\* an input with an incomplete record and a non-empty output
C10_Witness ==
    /\ Cleaned
    /\ ons_clean # <<>>
    /\ \E i \in 1..Len(ons_df) : ~Complete(ons_df[i])

\* C11: every record of the cleaned load table has a load that is zero or
\* more, whatever the input, negative loads in the input included.
C11_NonNegativeLoad ==
    Cleaned =>
        \A i \in 1..Len(ons_clean) : RLe(I(0), ons_clean[i].val_cargaenergiamwmed)

\* the mean of the integral loads xs[max(1, k - w + 1)..k]
WindowMean(xs, k, w) ==
    LET lo == IF k - w + 1 < 1 THEN 1 ELSE k - w + 1
    IN  Norm(ISumRange(LAMBDA j : xs[j].n, lo, k), k - lo + 1)

\* C12: the rows of a region are in date order, and for w = 7 and w = 30 the
\* load_ma column of the k-th row of a region is the mean of the loads of the
\* rows max(1, k - w + 1)..k of that region; it is never missing, also in a
\* region of fewer than 7 rows.
C12_MovingAverageIsWindowMean ==
    Engineered =>
        \A i \in 1..Len(final_df) :
            LET xs == LoadColumn(RowsOfRegion(final_df, final_df[i].region))
                k == RankInRegion(final_df, i)
            IN  /\ \A j \in 1..i :
                    final_df[j].region = final_df[i].region
                        => final_df[j].date <= final_df[i].date
                /\ final_df[i].load_ma_7d = WindowMean(xs, k, 7)
                /\ final_df[i].load_ma_30d = WindowMean(xs, k, 30)
                /\ ~IsNaN(final_df[i].load_ma_7d)
                /\ ~IsNaN(final_df[i].load_ma_30d)

\* a region of fewer than 7 rows next to a region of more than 30 rows whose
\* two averages differ
C12_Witness ==
    /\ Engineered
    /\ \E i, j \in 1..Len(final_df) :
        /\ Len(RowsOfRegion(final_df, final_df[i].region)) < 7
        /\ RankInRegion(final_df, j) > 30
        /\ final_df[j].load_ma_7d # final_df[j].load_ma_30d
        /\ final_df[j].load_ma_7d # Mean(LoadColumn(RowsOfRegion(final_df, final_df[j].region)))

LagColumns == {"load_lag_1d", "load_lag_7d", "temp_lag_1d", "temp_lag_7d"}

\* the value n rows earlier in a series, missing for its first n rows
LagValue(xs, k, n) == IF k <= n THEN NaN ELSE xs[k - n]

\* C13: every row of the feature table has the lag columns of load and
\* temperature for the lags 1 and 7, holding the value n rows earlier in the
\* region's series and missing in the first n rows of the region.
C13_LagColumns ==
    Engineered =>
        \A i \in 1..Len(final_df) :
            LET own == RowsOfRegion(final_df, final_df[i].region)
                loads == LoadColumn(own)
                temps == Tuple([j \in 1..Len(own) |-> own[j].temp_mean])
                k == RankInRegion(final_df, i)
            IN  /\ LagColumns \subseteq DOMAIN final_df[i]
                /\ final_df[i].load_lag_1d = LagValue(loads, k, 1)
                /\ final_df[i].load_lag_7d = LagValue(loads, k, 7)
                /\ final_df[i].temp_lag_1d = LagValue(temps, k, 1)
                /\ final_df[i].temp_lag_7d = LagValue(temps, k, 7)

\* the square root of a rational that is a perfect square, NaN otherwise
RSqrt(q) ==
    IF q.d = 0 \/ q.n < 0 THEN NaN
    ELSE IF (\E a \in 0..q.n : a * a = q.n) /\ (\E b \in 1..q.d : b * b = q.d)
         THEN Norm(CHOOSE a \in 0..q.n : a * a = q.n, CHOOSE b \in 1..q.d : b * b = q.d)
         ELSE NaN

\* the sum of the Z-scores of a table, in units of the absolute Z-score of
\* row u: each score is sgn * sqrt(sq), and sq / sq_u is a perfect square
ZScoreSum(df, u) ==
    RSum(Tuple([i \in 1..Len(df) |->
        RMul(I(df[i].load_zscore.sgn),
             RSqrt(RDiv(df[i].load_zscore.sq, df[u].load_zscore.sq)))]))

\* C14: the ten loads 100, 102, 98, 101, 99, 250, 100, 103, 97, 102 of one
\* region on ten consecutive days with weather give ten rows; exactly one
\* has is_anomaly = 1, the row of load 250; its |load_zscore| exceeds 2.5 and
\* the load_zscore values of the region sum to zero.
C14_ExampleFlagsOnlyThe250 ==
    (Engineered /\ ons_df = OnsExample) =>
        /\ Len(final_df) = 10
        /\ \E u \in 1..Len(final_df) :
            /\ final_df[u].val_cargaenergiamwmed = I(250)
            /\ \A i \in 1..Len(final_df) : final_df[i].is_anomaly = (IF i = u THEN 1 ELSE 0)
            /\ AbsGt(final_df[u].load_zscore, 5, 2)
            /\ ZScoreSum(final_df, u) = I(0)

\* the scenario has run through feature engineering and the 250 is flagged
C14_Witness ==
    /\ Engineered
    /\ ons_df = OnsExample
    /\ Len(ons_clean) = 10
    /\ \E u \in 1..Len(final_df) :
        final_df[u].val_cargaenergiamwmed = I(250) /\ final_df[u].is_anomaly = 1

Aggregated == pc \in {"aggregated", "merged", "engineered", "done"}

\* the observations of region r whose Data cell is the date d
ObsOf(df, r, d) == SelectSeq(df, LAMBDA row : row.region = r /\ ParseData(row.Data) = d)

\* mean, sum, least and greatest of a sequence of integral values
IntMean(xs) ==
    IF xs = <<>> THEN NaN ELSE Norm(ISumRange(LAMBDA j : xs[j].n, 1, Len(xs)), Len(xs))

IntSum(xs) == I(ISumRange(LAMBDA j : xs[j].n, 1, Len(xs)))

IntMin(xs) ==
    IF xs = <<>> THEN NaN
    ELSE I(CHOOSE v \in {xs[j].n : j \in 1..Len(xs)} : \A j \in 1..Len(xs) : v <= xs[j].n)

IntMax(xs) ==
    IF xs = <<>> THEN NaN
    ELSE I(CHOOSE v \in {xs[j].n : j \in 1..Len(xs)} : \A j \in 1..Len(xs) : v >= xs[j].n)

\* the (region, date) pairs of the observations that have a date
InputPairs ==
    {<<inmet_df[i].region, ParseData(inmet_df[i].Data)>> :
        i \in {j \in 1..Len(inmet_df) : ParseData(inmet_df[j].Data) # NaT}}

C16_AggregateBounds ==
    Aggregated =>
        \A k \in 1..Len(inmet_agg) :
            /\ ~IsNaN(inmet_agg[k].temp_mean) =>
                    /\ RLe(inmet_agg[k].temp_min, inmet_agg[k].temp_mean)
                    /\ RLe(inmet_agg[k].temp_mean, inmet_agg[k].temp_max)
            /\ RLe(I(0), inmet_agg[k].precipitation_total)

\* C17: a missing weather value is left out of its aggregate and never
\* counted as zero: temp_mean is the mean of the temperatures present,
\* precipitation_total the sum of the precipitations present, and a group
\* with no precipitation present does not get the total 0.
C17_MissingNeverCountedAsZero ==
    Aggregated =>
        \A k \in 1..Len(inmet_agg) :
            LET obs == ObsOf(inmet_df, inmet_agg[k].region, inmet_agg[k].date)
                t == SelectSeq(Tuple([j \in 1..Len(obs) |-> obs[j].temp]), LAMBDA x : ~IsNaN(x))
                p == SelectSeq(Tuple([j \in 1..Len(obs) |-> obs[j].precip]),
                               LAMBDA x : ~IsNaN(x))
            IN  /\ inmet_agg[k].temp_mean = IntMean(t)
                /\ p # <<>> => inmet_agg[k].precipitation_total = IntSum(p)
                /\ p = <<>> => inmet_agg[k].precipitation_total # I(0)

\* a run of the pipeline for a year, started by one of its callers
YearRun == caller # "process"

\* INMETLoader.load has returned its table
InmetLoaded ==
    /\ YearRun
    /\ pc \in {"start", "cleaned", "aggregated", "merged", "engineered", "done"}

Unmapped(state_code) == Upper(state_code) \notin DOMAIN STATE_TO_REGION

\* the rows of the station files that are read and whose state is not mapped
UnmappedRows(files) ==
    LET RowsOf(i) ==
            IF files[i].parses /\ Unmapped(extract_state_from_filename(files[i].name))
            THEN files[i].rows ELSE <<>>
    IN  ConcatRange(RowsOf, 1, Len(files))

\* C18: an observation of a station file whose state code (the code in the
\* file name, or the fallback 'UNKNOWN') is not in the state table has the
\* region 'Unknown' and no other; the loader keeps all such observations, the
\* aggregation keeps them as rows of region 'Unknown', and the merged table
\* has no row of region 'Unknown'.
C18_UnknownRegionBucket ==
    InmetLoaded =>
        LET unk == SelectSeq(inmet_df, LAMBDA row : row.region = "Unknown")
        IN  /\ \A i \in 1..Len(inmet_df) :
                Unmapped(inmet_df[i].state_code) <=> inmet_df[i].region = "Unknown"
            /\ Tuple([i \in 1..Len(unk) |->
                    RawRow(unk[i].Data, unk[i].temp, unk[i].radiation, unk[i].precip)])
                    = UnmappedRows(feed_inmet.files)
            /\ Aggregated =>
                    \A i \in 1..Len(unk) :
                        ParseData(unk[i].Data) # NaT =>
                            \E k \in 1..Len(inmet_agg) :
                                /\ inmet_agg[k].region = "Unknown"
                                /\ inmet_agg[k].date = ParseData(unk[i].Data)
            /\ Merged => \A i \in 1..Len(merged) : merged[i].region # "Unknown"

\* a station file without a state in its name next to a file of a mapped
\* state: an 'Unknown' row in the aggregate and a merged table that is not empty
C18_Witness ==
    /\ InmetLoaded
    /\ Merged
    /\ merged # <<>>
    /\ \E i \in 1..Len(inmet_df) : inmet_df[i].state_code = "UNKNOWN"
    /\ \E k \in 1..Len(inmet_agg) : inmet_agg[k].region = "Unknown"

\* INMETLoader.load has been called with the archive at hand and is over
InmetLoadOver ==
    /\ YearRun
    /\ feed_ons.status = "ok"
    /\ feed_inmet.status = "ok"
    /\ pc \notin {"load_ons", "load_inmet"}

\* the rows of the files that are read, in the order of the files
RowsOfParsed(files) ==
    LET RowsOf(i) == IF files[i].parses THEN files[i].rows ELSE <<>>
    IN  ConcatRange(RowsOf, 1, Len(files))

\* C19: INMETLoader.load raises ("No valid station data", a ValueError)
\* exactly when no station file of the archive parses; when one or more
\* parse, the table it returns holds exactly the rows of the files that
\* parse, in order, each file that fails being skipped.
C19_RaisesIffNoFileParses ==
    InmetLoadOver =>
        LET files == feed_inmet.files
            none == \A i \in 1..Len(files) : ~files[i].parses
        IN  /\ (error = "ValueError") <=> none
            /\ none => inmet_df = <<>>
            /\ ~none =>
                    Tuple([i \in 1..Len(inmet_df) |->
                        RawRow(inmet_df[i].Data, inmet_df[i].temp, inmet_df[i].radiation,
                               inmet_df[i].precip)])
                        = RowsOfParsed(files)

\* a file that fails followed by a file that parses, whose rows are loaded
C19_Witness ==
    /\ InmetLoadOver
    /\ inmet_df # <<>>
    /\ \E i, j \in 1..Len(feed_inmet.files) :
        /\ i < j
        /\ ~feed_inmet.files[i].parses
        /\ feed_inmet.files[j].parses

\* C20: when the fetch of a feed fails, the loader raises, and the caller of
\* the year's run ends by raising too: it never returns normally.
C20_FetchFailurePropagates ==
    YearRun =>
        /\ (feed_ons.status = "http_error" /\ pc # "load_ons") => error = "HTTPError"
        /\ (feed_inmet.status = "http_error" /\ pc \notin {"load_ons", "load_inmet"})
                => error = "HTTPError"
        /\ error = "HTTPError" => pc \in {"error", "raised"}

\* C21: when the inner join of the cleaned load and the aggregated weather
\* has no row, process fails at the merge stage: it never hands the empty
\* table to engineer_features and never returns or writes an empty result.
C21_EmptyJoinSurfaced == Engineered => merged # <<>>

Updated == pc = "updated"

CalendarColumns == {"day_of_week", "month", "year", "season"}

RollingColumns == {"load_ma_7d", "load_ma_30d", "temp_ma_7d", "temp_ma_30d"}

\* C23: engineer_features applied to its own output leaves the rows where
\* they are and leaves the calendar columns and the moving averages of every
\* row as the first run computed them.
C23_RerunKeepsCalendarAndRolling ==
    Updated =>
        /\ Len(saved.table) = Len(final_df)
        /\ \A i \in 1..Len(final_df) :
            /\ \A c \in {"date", "region", "val_cargaenergiamwmed", "temp_mean"} :
                   saved.table[i][c] = final_df[i][c]
            /\ \A c \in CalendarColumns \cup RollingColumns :
                   saved.table[i][c] = final_df[i][c]

\* the updated table has rows of two regions and two rows of one
\* (region, date) key with different loads
C23_Witness ==
    /\ Updated
    /\ \E i, j \in 1..Len(final_df) : final_df[i].region # final_df[j].region
    /\ \E i, j \in 1..Len(final_df) :
        /\ i < j
        /\ final_df[i].region = final_df[j].region
        /\ final_df[i].date = final_df[j].date
        /\ final_df[i].val_cargaenergiamwmed # final_df[j].val_cargaenergiamwmed

C25_EveryTableFlagsAbove25 ==
    /\ Engineered =>
        \A i \in 1..Len(final_df) :
            (final_df[i].is_anomaly = 1) <=> AbsGt(final_df[i].load_zscore, 5, 2)
    /\ generated.exists =>
        \A i \in 1..Len(generated.table) :
            (generated.table[i].is_anomaly = 1) <=> AbsGt(generated.table[i].load_zscore, 5, 2)

\* the integer loads of the rows of the region of row i, in table order
RegionLoads(df, i) ==
    LET g == SelectIdx(Len(df), LAMBDA j : df[j].region = df[i].region)
    IN  Tuple([k \in 1..Len(g) |-> df[g[k]].val_cargaenergiamwmed.n])

\* C26: load_mom of the k-th row of a region, in date order, is
\* (load_k - load_{k-30}) / load_{k-30} over the rows of that region alone,
\* and it is missing for the first 30 rows of every region.
C26_MonthOverMonth ==
    Engineered =>
        \A i \in 1..Len(final_df) :
            LET x == RegionLoads(final_df, i)
                k == RankInRegion(final_df, i)
            IN  IF k <= 30 THEN IsNaN(final_df[i].load_mom)
                ELSE final_df[i].load_mom = Norm(x[k] - x[k - 30], x[k - 30])

\* a region of more than 30 rows next to rows of another region: a row has a
\* month-over-month change that is not zero
C26_Witness ==
    /\ Engineered
    /\ \E i, j \in 1..Len(final_df) :
        /\ RankInRegion(final_df, i) > 30
        /\ ~IsNaN(final_df[i].load_mom)
        /\ final_df[i].load_mom # I(0)
        /\ final_df[j].region # final_df[i].region

\* the month of a date of the explored years, from the first days of the months
MonthOfDate(date) ==
    CHOOSE m \in 1..12 :
        \E y \in 2021..2024 :
            /\ DaysFromCivil(y, m, 1) <= date
            /\ date < (IF m = 12 THEN DaysFromCivil(y + 1, 1, 1) ELSE DaysFromCivil(y, m + 1, 1))

SeasonOfMonth ==
    <<"Summer", "Summer", "Fall", "Fall", "Fall", "Winter", "Winter", "Winter",
      "Spring", "Spring", "Spring", "Summer">>

\* C27: season is a total function of the month of the row's date: months
\* 12, 1, 2 give Summer, 3, 4, 5 Fall, 6, 7, 8 Winter and 9, 10, 11 Spring,
\* and no row has a missing season.
C27_SeasonOfMonth ==
    Engineered =>
        \A i \in 1..Len(final_df) :
            /\ final_df[i].month = MonthOfDate(final_df[i].date)
            /\ final_df[i].season = SeasonOfMonth[MonthOfDate(final_df[i].date)]

\* a table with a row in each of the twelve months
C27_Witness ==
    /\ Engineered
    /\ {final_df[i].month : i \in 1..Len(final_df)} = 1..12
    /\ {final_df[i].season : i \in 1..Len(final_df)} = {"Summer", "Fall", "Winter", "Spring"}

\* the positions of a call of process that has not returned or raised
InProcess == pc \in {"start", "cleaned", "aggregated", "merged", "engineered"}

StageOrder ==
    {<<"start", "cleaned">>, <<"cleaned", "aggregated">>, <<"aggregated", "merged">>,
     <<"merged", "engineered">>, <<"engineered", "done">>, <<"start", "error">>}

\* C28: process runs clean, aggregate, merge, engineer and save in this
\* order, each stage on the results of the stages before it.  The file is
\* written only by the last step, from the table engineer_features returned:
\* a call that raises writes nothing, and a call with save=False never writes.
C28_StagesInOrderSaveLast ==
    [][/\ InProcess => <<pc, pc'>> \in StageOrder
       /\ ons_clean' # ons_clean => pc = "start" /\ ons_clean' = clean_ons_data(ons_df)
       /\ inmet_agg' # inmet_agg => pc = "cleaned"
       /\ merged' # merged => pc = "aggregated" /\ merged' = merge_ons_inmet(ons_clean, inmet_agg)
       /\ final_df' # final_df => pc = "merged" /\ final_df' = engineer_features(merged)
       /\ (InProcess /\ saved' # saved) =>
              pc = "engineered" /\ save /\ pc' = "done" /\ saved' = File(final_df)
       /\ pc' = "error" => saved' = saved
       /\ (InProcess /\ pc' = "done" /\ save) => saved' = File(final_df)]_vars

\* process called with save=False has returned a table of several rows and
\* there is no file
C28_Witness ==
    /\ pc = "done"
    /\ ~save
    /\ Len(final_df) > 1
    /\ saved = NoFile

\* C29: an observation whose Data cell is a date written YYYY/MM/DD or
\* YYYY-MM-DD is assigned that calendar date and counts in the aggregate of
\* its (region, date): the aggregated table has the row, and a temperature
\* the observation carries lies between the row's minimum and maximum.
C29_BothDateFormatsAccepted ==
    Aggregated =>
        \A i \in 1..Len(inmet_df) :
            (inmet_df[i].Data.fmt \in {"slash", "dash"} /\ inmet_df[i].region # NoRegion) =>
                \E k \in 1..Len(inmet_agg) :
                    /\ inmet_agg[k].region = inmet_df[i].region
                    /\ inmet_agg[k].date = inmet_df[i].Data.day
                    /\ ~IsNaN(inmet_df[i].temp) =>
                        /\ RLe(inmet_agg[k].temp_min, inmet_df[i].temp)
                        /\ RLe(inmet_df[i].temp, inmet_agg[k].temp_max)

\* the number of rows of the region of row i
RegionSize(df, i) == Cardinality({j \in 1..Len(df) : df[j].region = df[i].region})

\* C30: in a region of n merged rows no load_zscore exceeds (n - 1) / sqrt(n)
\* in absolute value, whatever the loads; so a region of 8 rows or fewer
\* (7 / sqrt(8) < 2.5) has no row with is_anomaly = 1.
C30_SmallRegionNeverFlagged ==
    Engineered =>
        \A i \in 1..Len(final_df) :
            LET n == RegionSize(final_df, i)
                z == final_df[i].load_zscore
            IN  /\ ~IsNaN(z.sq) => RLe(z.sq, Norm((n - 1) * (n - 1), n))
                /\ n <= 8 => final_df[i].is_anomaly = 0

\* a region of exactly 8 rows with a load whose score reaches the bound
\* 7 / sqrt(8) and is not flagged
C30_Witness ==
    /\ Engineered
    /\ \E i \in 1..Len(final_df) :
        /\ RegionSize(final_df, i) = 8
        /\ final_df[i].load_zscore.sq = Norm(49, 8)
        /\ final_df[i].is_anomaly = 0

====
